---- MODULE Spec2Model ----
(***************************************************************************)
(* toc-formatter: the Next.js service layer (pages/api/upload.js,          *)
(* pages/api/process.js, pages/api/download.js, pages/index.js) around the *)
(* Python rewrite pass (python/toc_formatter.py).                          *)
(*                                                                         *)
(* File names are sequences of tokens.  A token is an atomic piece of      *)
(* text ("a", "1", "_", ".docx", "processed_", ...); no token of the       *)
(* alphabet used here is a proper part of the texts the code searches for  *)
(* (".docx", "processed_", digits followed by "_"), so matching on tokens  *)
(* is matching on characters.                                              *)
(***************************************************************************)
EXTENDS Integers, Sequences, FiniteSets, TLC

VARIABLES now, dirs, fs, ups, procs, dls, page, rw

vars == <<now, dirs, fs, ups, procs, dls, page, rw>>
webVars == <<now, dirs, fs, ups, procs, dls, page>>

(* ------------------------------ bounds --------------------------------- *)

\* Date.now() ranges over 1..MaxClock
MaxClock == 2
\* number of stdout chunks a subprocess prints
MaxLog == 1
\* number of paragraphs of a document
MaxParas == 2

(* ------------------------------ values --------------------------------- *)

\* null / undefined, of the type of a text
Null == <<"null">>

DOCX == ".docx"
TXT == ".txt"
PROCESSED == "processed_"

Digit == <<"0", "1", "2", "3", "4", "5", "6", "7", "8", "9">>
IsDigit(t) == \E i \in 1..10 : Digit[i] = t

\* `${timestamp}`: the decimal digits of a number
RECURSIVE ToDigits(_)
ToDigits(n) ==
    IF n < 10 THEN <<Digit[n + 1]>>
    ELSE ToDigits(n \div 10) \o <<Digit[(n % 10) + 1]>>

\* String.prototype.endsWith
EndsWith(name, suffix) == Len(name) >= 1 /\ name[Len(name)] = suffix

\* a character above U+00FF, which no HTTP header value may hold
NONLATIN == "U+6587"

\* the names a user can pick or a client can upload; one has a character
\* outside Latin-1
OrigNames == { <<"a", DOCX>>, <<"a", TXT>>, <<NONLATIN, DOCX>> }

\* the names picked on the page when it is taken alone; one starts with
\* digits and an underscore, one contains 'processed_'
PageNames ==
    { <<"a", TXT>>, <<"1", "_", "a", DOCX>>, <<"processed_", "a", DOCX>> }

\* the browser page and the other clients of the API.  A behaviour holds
\* one pass of the page (file selections, one "Format TOC", one download)
\* next to one request of each other client.
ApiClients == {"api"}
Clients == {"page"} \cup ApiClients

\* Date.now() values and the stored names `${timestamp}_${originalFilename}`
Clock == 1..MaxClock
StoredNames == { ToDigits(t) \o <<"_">> \o n : t \in Clock, n \in OrigNames }

\* the filename values an API client sends to /api/process: stored names,
\* and a name that climbs out of uploads to a processed document
ClientNames ==
    { ToDigits(t) \o <<"_", "a", DOCX>> : t \in Clock }
    \cup { <<"..", "/", "outputs", "/", "processed_", "1", "_", "a", DOCX>> }

\* the file values an API client sends to /api/download: processed names,
\* and a name that climbs out of outputs to an uploaded document
ClientFiles ==
    { <<"processed_">> \o ToDigits(t) \o <<"_", "a", DOCX>> : t \in Clock }
    \cup { <<"..", "/", "uploads", "/", "1", "_", "a", DOCX>> }

(* ------------------------------ paths ---------------------------------- *)

\* the segments of a name, split at "/"
RECURSIVE SplitFrom(_, _, _)
SplitFrom(name, i, cur) ==
    IF i > Len(name) THEN <<cur>>
    ELSE IF name[i] = "/" THEN <<cur>> \o SplitFrom(name, i + 1, <<>>)
    ELSE SplitFrom(name, i + 1, Append(cur, name[i]))

Split(name) == SplitFrom(name, 1, <<>>)

\* path.normalize on segments, relative to process.cwd()
RECURSIVE Normalize(_, _)
Normalize(segs, stack) ==
    IF segs = <<>> THEN stack
    ELSE LET s == Head(segs) IN
         IF s = <<>> \/ s = <<".">> THEN Normalize(Tail(segs), stack)
         ELSE IF s = <<"..">> THEN
              IF stack # <<>> /\ stack[Len(stack)] # <<"..">>
              THEN Normalize(Tail(segs), SubSeq(stack, 1, Len(stack) - 1))
              ELSE Normalize(Tail(segs), Append(stack, s))
         ELSE Normalize(Tail(segs), Append(stack, s))

\* path.join(process.cwd(), dir, name)
PathJoin(dir, name) == Normalize(<<<<dir>>>> \o Split(name), <<>>)

UPLOADS == "uploads"
OUTPUTS == "outputs"

\* a path lies inside directory dir
Inside(dir, path) == Len(path) >= 2 /\ path[1] = <<dir>>

(* ----------------------------- responses ------------------------------- *)

\* res.status(status).json({success, filename, outputFile, logs, error})
Resp(status, success, filename, outputFile, logs, error) ==
    [status |-> status, success |-> success, filename |-> filename,
     outputFile |-> outputFile, logs |-> logs, error |-> error]

ErrorResp(status, msg) == Resp(status, FALSE, Null, Null, Null, <<msg>>)

\* no response yet; also the page's result = null
NoResp == Resp(0, FALSE, Null, Null, Null, Null)

\* response.ok
Ok(r) == r.status >= 200 /\ r.status <= 299

(* ------------------------- pages/api/upload.js ------------------------- *)

IdleUpload == [orig |-> Null, tmp |-> <<>>, parse |-> "ok", st |-> "idle",
               resp |-> NoResp]

\* formidable's name for the file it writes into uploadDir (keepExtensions)
TmpName(c, orig) ==
    <<"tmp", c>> \o
    (IF orig # Null /\ Len(orig) > 1 THEN <<orig[Len(orig)]>> ELSE <<>>)

\* `${timestamp}_${file.originalFilename}`
StoredName(timestamp, orig) == ToDigits(timestamp) \o <<"_">> \o orig

\* the handler up to `await form.parse(req)`; parse is what the parse will
\* yield: "ok" (a file), "nofile" (no file field) or "error" (it throws)
UploadBegin(c, method, orig, parse) ==
    /\ IF method # "POST"
       THEN /\ ups' = [ups EXCEPT ![c] =
                         [orig |-> orig, tmp |-> <<>>, parse |-> parse,
                          st |-> "done",
                          resp |-> ErrorResp(405, "Method not allowed")]]
            /\ UNCHANGED <<dirs, fs>>
       ELSE LET tmp == IF parse = "ok" THEN PathJoin(UPLOADS, TmpName(c, orig))
                       ELSE <<>> IN
            /\ dirs' = dirs \cup {UPLOADS}
            /\ fs' = IF parse = "ok" THEN fs \cup {tmp} ELSE fs
            /\ ups' = [ups EXCEPT ![c] =
                         [orig |-> orig, tmp |-> tmp, parse |-> parse,
                          st |-> "parsing", resp |-> NoResp]]

\* the first request of client c
UploadArrive(c, method, orig, parse) ==
    /\ ups[c].st = "idle"
    /\ UploadBegin(c, method, orig, parse)

\* the response to an accepted upload
UploadOk(filename, orig) == Resp(200, TRUE, filename, Null, Null, Null)

\* mutant of Accepted: only the presence of a name is checked
AcceptedAnyName(orig) == orig # Null

\* file.originalFilename?.endsWith('.docx')
Accepted(orig) == orig # Null /\ EndsWith(orig, DOCX)

\* the handler after `await form.parse(req)`
UploadResume(c) ==
    LET q == ups[c]
        filename == StoredName(now, q.orig)
        newPath == PathJoin(UPLOADS, filename)
        done(resp) == ups' = [ups EXCEPT ![c].st = "done", ![c].resp = resp]
    IN
    /\ q.st = "parsing"
    /\ IF q.parse = "error"
       THEN done(ErrorResp(500, "Upload failed")) /\ UNCHANGED fs
       ELSE IF q.parse = "nofile"
       THEN done(ErrorResp(400, "No file uploaded")) /\ UNCHANGED fs
       ELSE IF q.tmp \notin fs
       THEN \* unlinkSync / renameSync throws
            done(ErrorResp(500, "Upload failed")) /\ UNCHANGED fs
       ELSE IF ~Accepted(q.orig)
       THEN /\ fs' = fs \ {q.tmp}
            /\ done(ErrorResp(400, "Only .docx files are allowed"))
       ELSE /\ fs' = (fs \ {q.tmp}) \cup {newPath}
            /\ done(UploadOk(filename, q.orig))
    /\ UNCHANGED <<rw, now, dirs, procs, dls, page>>

(* ------------------------ pages/api/process.js ------------------------- *)

IdleProcess == [method |-> "none", filename |-> Null, st |-> "idle",
                inputPath |-> <<>>,
                outputPath |-> <<>>, output |-> <<>>, error |-> <<>>,
                written |-> FALSE, code |-> "none", calls |-> <<>>]

\* `processed_${filename}`
OutputFilename(filename) == <<PROCESSED>> \o filename

\* mutant of ProcessArrive: the outputs directory is made before the
\* request is examined
ProcessArriveMkdirFirst(c, method, filename, spawned) ==
    LET inputPath == IF filename = Null THEN <<>> ELSE PathJoin(UPLOADS, filename)
        outputPath == IF filename = Null THEN <<>>
                      ELSE PathJoin(OUTPUTS, OutputFilename(filename))
        req(st, calls) ==
            [method |-> method, filename |-> filename, st |-> st,
             inputPath |-> inputPath, outputPath |-> outputPath,
             output |-> <<>>, error |-> <<>>, written |-> FALSE,
             code |-> "none", calls |-> calls]
        reject(status, msg) ==
            /\ procs' = [procs EXCEPT ![c] =
                           req("rejected", <<ErrorResp(status, msg)>>)]
            /\ dirs' = dirs \cup {OUTPUTS}
    IN
    /\ procs[c].st = "idle"
    /\ IF method # "POST" THEN reject(405, "Method not allowed")
       ELSE IF filename = Null THEN reject(400, "Filename is required")
       ELSE IF inputPath \notin fs THEN reject(404, "File not found")
       ELSE /\ dirs' = dirs \cup {OUTPUTS}
            /\ procs' = [procs EXCEPT ![c] =
                           req(IF spawned THEN "running" ELSE "spawnfail", <<>>)]

\* the handler up to the return of the promise; spawned tells whether
\* spawn('python3', ...) could start the subprocess
ProcessArrive(c, method, filename, spawned) ==
    LET inputPath == IF filename = Null THEN <<>> ELSE PathJoin(UPLOADS, filename)
        outputPath == IF filename = Null THEN <<>>
                      ELSE PathJoin(OUTPUTS, OutputFilename(filename))
        req(st, calls) ==
            [method |-> method, filename |-> filename, st |-> st,
             inputPath |-> inputPath, outputPath |-> outputPath,
             output |-> <<>>, error |-> <<>>, written |-> FALSE,
             code |-> "none", calls |-> calls]
        reject(status, msg) ==
            /\ procs' = [procs EXCEPT ![c] =
                           req("rejected", <<ErrorResp(status, msg)>>)]
            /\ UNCHANGED dirs
    IN
    /\ procs[c].st = "idle"
    /\ IF method # "POST" THEN reject(405, "Method not allowed")
       ELSE IF filename = Null THEN reject(400, "Filename is required")
       ELSE IF inputPath \notin fs THEN reject(404, "File not found")
       ELSE /\ dirs' = dirs \cup {OUTPUTS}
            /\ procs' = [procs EXCEPT ![c] =
                           req(IF spawned THEN "running" ELSE "spawnfail", <<>>)]

\* pythonProcess.stdout.on('data')
OnStdout(c) ==
    /\ procs[c].st = "running"
    /\ Len(procs[c].output) < MaxLog
    /\ procs' = [procs EXCEPT ![c].output = @ \o <<"log">>]
    /\ UNCHANGED <<rw, now, dirs, fs, ups, dls, page>>

\* pythonProcess.stderr.on('data')
OnStderr(c) ==
    /\ procs[c].st = "running"
    /\ Len(procs[c].error) < MaxLog
    /\ procs' = [procs EXCEPT ![c].error = @ \o <<"err">>]
    /\ UNCHANGED <<rw, now, dirs, fs, ups, dls, page>>

\* the subprocess writes the formatted document to outputPath, whose
\* directory must exist
PyWrite(c) ==
    /\ procs[c].st = "running"
    /\ ~procs[c].written
    /\ procs[c].inputPath \in fs
    /\ Len(procs[c].outputPath) = 2
    /\ procs[c].outputPath[1][1] \in dirs
    /\ fs' = fs \cup {procs[c].outputPath}
    /\ procs' = [procs EXCEPT ![c].written = TRUE]
    /\ UNCHANGED <<rw, now, dirs, ups, dls, page>>

\* the exit codes 'close' can carry: "0" after the document was written,
\* "1" for a failure, "null" when a signal killed the subprocess, and the
\* negative errno "ENOENT" after a failed spawn
ExitCodes(q) ==
    IF q.st = "errored" THEN {"ENOENT"}
    ELSE IF q.written THEN {"0", "1", "null"} ELSE {"1", "null"}

\* mutant of CloseResp: `if (!code)` instead of `if (code === 0)`
CloseRespFalsy(q, code) ==
    IF code \in {"0", "null"}
    THEN Resp(200, TRUE, Null, OutputFilename(q.filename), q.output, Null)
    ELSE Resp(500, FALSE, Null, Null, q.output,
              IF q.error # <<>> THEN q.error ELSE <<"Processing failed">>)

\* the response of the 'close' handler
CloseResp(q, code) ==
    IF code = "0"
    THEN Resp(200, TRUE, Null, OutputFilename(q.filename), q.output, Null)
    ELSE Resp(500, FALSE, Null, Null, q.output,
              IF q.error # <<>> THEN q.error ELSE <<"Processing failed">>)

\* mutant of OnClose: the failure branch sends no response
OnCloseSilentFailure(c, code) ==
    /\ procs[c].st \in {"running", "errored"}
    /\ code \in ExitCodes(procs[c])
    /\ fs' = fs \ {procs[c].inputPath}
    /\ procs' = [procs EXCEPT ![c].st = "closed", ![c].code = code,
                              ![c].calls = IF code = "0"
                                           THEN Append(@, CloseResp(procs[c], code))
                                           ELSE @]
    /\ UNCHANGED <<rw, now, dirs, ups, dls, page>>

\* pythonProcess.on('close')
OnClose(c, code) ==
    /\ procs[c].st \in {"running", "errored"}
    /\ code \in ExitCodes(procs[c])
    /\ fs' = fs \ {procs[c].inputPath}
    /\ procs' = [procs EXCEPT ![c].st = "closed", ![c].code = code,
                              ![c].calls = Append(@, CloseResp(procs[c], code))]
    /\ UNCHANGED <<rw, now, dirs, ups, dls, page>>

\* the response of the 'error' handler
SpawnErrorResp ==
    ErrorResp(500, "Failed to start processing. Make sure Python is installed.")

\* pythonProcess.on('error')
OnError(c) ==
    /\ procs[c].st = "spawnfail"
    /\ procs' = [procs EXCEPT ![c].st = "errored",
                              ![c].calls = Append(@, SpawnErrorResp)]
    /\ UNCHANGED <<rw, now, dirs, fs, ups, dls, page>>

\* the response the client receives: the first res.json of the request
Sent(q) == IF q.calls = <<>> THEN NoResp ELSE Head(q.calls)

(* ------------------------ pages/api/download.js ------------------------ *)

IdleDownload == [file |-> Null, filePath |-> <<>>, resp |-> NoResp,
                 timer |-> "none"]

\* String.prototype.replace(token, ''): the first occurrence is removed
RECURSIVE RemoveFirst(_, _)
RemoveFirst(name, tok) ==
    IF name = <<>> THEN <<>>
    ELSE IF Head(name) = tok THEN Tail(name)
    ELSE <<Head(name)>> \o RemoveFirst(Tail(name), tok)

\* the number of leading digits of a name
RECURSIVE LeadingDigits(_)
LeadingDigits(name) ==
    IF name # <<>> /\ IsDigit(Head(name)) THEN 1 + LeadingDigits(Tail(name))
    ELSE 0

\* String.prototype.replace(/^\d+_/, '')
StripTimestamp(name) ==
    LET k == LeadingDigits(name) IN
    IF k >= 1 /\ Len(name) > k /\ name[k + 1] = "_"
    THEN SubSeq(name, k + 2, Len(name))
    ELSE name

\* file.replace('processed_', '').replace(/^\d+_/, '')
OriginalName(file) == StripTimestamp(RemoveFirst(file, PROCESSED))

\* res.setHeader accepts a value whose characters are all in Latin-1 and
\* throws for any other
ValidHeaderValue(name) == \A i \in 1..Len(name) : name[i] # NONLATIN

\* the whole handler; the deletion is left to the timer it sets
DownloadArrive(c, method, file) ==
    LET filePath == IF file = Null THEN <<>> ELSE PathJoin(OUTPUTS, file)
        req(resp, timer) == [file |-> file, filePath |-> filePath,
                             resp |-> resp, timer |-> timer]
    IN
    /\ dls[c].resp = NoResp
    /\ dls' = [dls EXCEPT ![c] =
         IF method # "GET"
         THEN req(ErrorResp(405, "Method not allowed"), "none")
         ELSE IF file = Null
         THEN req(ErrorResp(400, "File parameter is required"), "none")
         ELSE IF filePath \notin fs
         THEN req(ErrorResp(404, "File not found"), "none")
         ELSE IF ~ValidHeaderValue(OriginalName(file))
         THEN \* setHeader throws: the catch block answers
              req(ErrorResp(500, "Failed to download file"), "none")
         ELSE req(Resp(200, TRUE, OriginalName(file), Null, Null, Null),
                  "pending")]

\* mutant of DownloadTimer: the callback does not unlink
DownloadTimerNoUnlink(c) ==
    /\ dls[c].timer = "pending"
    /\ dls' = [dls EXCEPT ![c].timer = "fired"]
    /\ UNCHANGED <<rw, now, dirs, fs, ups, procs, page>>

\* the setTimeout callback: fs.unlinkSync(filePath) inside try/catch
DownloadTimer(c) ==
    /\ dls[c].timer = "pending"
    /\ fs' = fs \ {dls[c].filePath}
    /\ dls' = [dls EXCEPT ![c].timer = "fired"]
    /\ UNCHANGED <<rw, now, dirs, ups, procs, page>>

(* --------------------------- pages/index.js ---------------------------- *)

\* encodeURIComponent, token by token
EncodeURIComponent(name) ==
    [i \in 1..Len(name) |-> IF name[i] = "/" THEN "%2F" ELSE name[i]]

\* the query parser's decoding of a parameter
DecodeURIComponent(name) ==
    [i \in 1..Len(name) |-> IF name[i] = "%2F" THEN "/" ELSE name[i]]

\* mutant of ButtonDisabled: disabled={!file}
ButtonDisabledWithoutFile == page.file = Null

\* disabled={!file || processing}
ButtonDisabled == page.file = Null \/ page.processing

HandleFileChange(selectedFile) ==
    /\ IF selectedFile # Null /\ EndsWith(selectedFile, DOCX)
       THEN page' = [page EXCEPT !.file = selectedFile, !.error = Null,
                                 !.result = NoResp, !.logs = <<>>]
       ELSE page' = [page EXCEPT !.error = <<"Please select a .docx file">>,
                                 !.file = Null]
    /\ UNCHANGED <<rw, now, dirs, fs, ups, procs, dls>>

\* handleUpload up to the first await: the upload request reaches the server
HandleUpload(parse) ==
    /\ ~ButtonDisabled
    /\ page.file # Null
    /\ UploadArrive("page", "POST", page.file, parse)
    /\ page' = [page EXCEPT !.processing = TRUE, !.error = Null,
                             !.result = NoResp, !.logs = <<>>,
                             !.pc = "upload"]
    /\ UNCHANGED <<rw, now, procs, dls>>

\* a later click on "Format TOC": the requests of the pipeline before,
\* which have ended, leave the model and the new upload request arrives
HandleUploadAgain(parse) ==
    /\ ~ButtonDisabled
    /\ page.file # Null
    /\ ups["page"].st = "done"
    /\ procs["page"].st \in {"idle", "rejected", "closed"}
    /\ UploadBegin("page", "POST", page.file, parse)
    /\ procs' = [procs EXCEPT !["page"] = IdleProcess]
    /\ page' = [page EXCEPT !.processing = TRUE, !.error = Null,
                             !.result = NoResp, !.logs = <<>>,
                             !.pc = "upload"]
    /\ UNCHANGED <<rw, now, dls>>

\* handleUpload from the upload response to the second await, or to the
\* catch and finally blocks
UploadResponse(spawned) ==
    /\ page.pc = "upload"
    /\ ups["page"].st = "done"
    /\ LET resp == ups["page"].resp IN
       IF ~Ok(resp)
       THEN /\ page' = [page EXCEPT !.error = <<"Upload failed">>,
                                    !.processing = FALSE, !.pc = "idle"]
            /\ UNCHANGED <<dirs, procs>>
       ELSE /\ ProcessArrive("page", "POST", resp.filename, spawned)
            /\ page' = [page EXCEPT !.pc = "process"]
    /\ UNCHANGED <<rw, now, fs, ups, dls>>

\* mutant of ProcessResponse: the `!processResponse.ok` check is missing
ProcessResponseUnchecked ==
    /\ page.pc = "process"
    /\ Sent(procs["page"]) # NoResp
    /\ LET resp == Sent(procs["page"]) IN
       page' = [page EXCEPT
                !.result = resp,
                !.logs = IF resp.logs # Null THEN resp.logs ELSE <<>>,
                !.processing = FALSE, !.pc = "idle"]
    /\ UNCHANGED <<rw, now, dirs, fs, ups, procs, dls>>

\* handleUpload from the process response to the end
ProcessResponse ==
    /\ page.pc = "process"
    /\ Sent(procs["page"]) # NoResp
    /\ LET resp == Sent(procs["page"]) IN
       IF ~Ok(resp)
       THEN page' = [page EXCEPT
                !.error = IF resp.error # Null /\ resp.error # <<>>
                          THEN resp.error ELSE <<"Processing failed">>,
                !.processing = FALSE, !.pc = "idle"]
       ELSE page' = [page EXCEPT
                !.result = resp,
                !.logs = IF resp.logs # Null THEN resp.logs ELSE <<>>,
                !.processing = FALSE, !.pc = "idle"]
    /\ UNCHANGED <<rw, now, dirs, fs, ups, procs, dls>>

\* handleDownload: window.open of /api/download?file=...
HandleDownload ==
    /\ page.result.outputFile # Null
    /\ DownloadArrive("page", "GET",
                      DecodeURIComponent(EncodeURIComponent(page.result.outputFile)))
    /\ UNCHANGED <<rw, now, dirs, fs, ups, procs, page>>

(* ---------------------------- other clients ---------------------------- *)

\* client c has sent nothing yet
Fresh(c) ==
    /\ ups[c].st = "idle"
    /\ procs[c].st = "idle"
    /\ dls[c].resp = NoResp

ApiUpload(c, method, orig, parse) ==
    /\ Fresh(c)
    /\ UploadArrive(c, method, orig, parse)
    /\ UNCHANGED <<rw, now, procs, dls, page>>

ApiProcess(c, method, filename, spawned) ==
    /\ Fresh(c)
    /\ ProcessArrive(c, method, filename, spawned)
    /\ UNCHANGED <<rw, now, fs, ups, dls, page>>

ApiDownload(c, method, file) ==
    /\ Fresh(c)
    /\ DownloadArrive(c, method, file)
    /\ UNCHANGED <<rw, now, dirs, fs, ups, procs, page>>

\* Date.now() advances
Tick ==
    /\ now < MaxClock
    /\ now' = now + 1
    /\ UNCHANGED <<rw, dirs, fs, ups, procs, dls, page>>

(* ------------------- python/toc_formatter.py (spec) -------------------- *)
(* The rewrite pass, after sections 3, 4 and 8 of the specification.  A    *)
(* paragraph is its text, a sequence of characters.                        *)

SP == " "
DOT == "."
COLON == ":"
\* the arrow glyph and the dash of a normalized abbreviation line
ARROW == "->"
EMDASH == "--"

UpperCase == {"A", "I", "V", "X"}
LowerCase == {"b", "i", "v", "x"}
IsUpper(ch) == ch \in UpperCase
IsLower(ch) == ch \in LowerCase
IsLetter(ch) == IsUpper(ch) \/ IsLower(ch)
IsAlnum(ch) == IsLetter(ch) \/ IsDigit(ch)
IsPunct(ch) == ch \in {DOT, COLON, ARROW, EMDASH, SP}

ToUpper(ch) ==
    CASE ch = "i" -> "I" [] ch = "v" -> "V" [] ch = "x" -> "X"
      [] ch = "b" -> "B" [] OTHER -> ch

UpperText(t) == [i \in 1..Len(t) |-> ToUpper(t[i])]

Spaces(n) == [i \in 1..n |-> SP]
Fill(ch, n) == [i \in 1..n |-> ch]

\* the number of leading spaces: rawIndentation
RECURSIVE LeadingSpaces(_)
LeadingSpaces(t) ==
    IF t # <<>> /\ Head(t) = SP THEN 1 + LeadingSpaces(Tail(t)) ELSE 0

RECURSIVE TrailingSpaces(_)
TrailingSpaces(t) ==
    IF t # <<>> /\ t[Len(t)] = SP
    THEN 1 + TrailingSpaces(SubSeq(t, 1, Len(t) - 1)) ELSE 0

TrimLeft(t) == SubSeq(t, LeadingSpaces(t) + 1, Len(t))
TrimRight(t) == SubSeq(t, 1, Len(t) - TrailingSpaces(t))
Trim(t) == TrimLeft(TrimRight(t))

(* parseRomanNumeral: the canonical grammar over I, V, X *)

RomanDigit(ch) ==
    CASE ch = "I" -> 1 [] ch = "V" -> 5 [] ch = "X" -> 10 [] OTHER -> 0

\* the value of an upper-case numeral read with the subtractive rule
RECURSIVE RomanValue(_)
RomanValue(t) ==
    IF t = <<>> THEN 0
    ELSE IF Len(t) >= 2 /\ RomanDigit(t[1]) < RomanDigit(t[2])
    THEN RomanDigit(t[2]) - RomanDigit(t[1]) + RomanValue(SubSeq(t, 3, Len(t)))
    ELSE RomanDigit(t[1]) + RomanValue(Tail(t))

\* the canonical numeral of a value below 40
RECURSIVE ToRoman(_)
ToRoman(n) ==
    IF n >= 10 THEN <<"X">> \o ToRoman(n - 10)
    ELSE IF n = 9 THEN <<"I", "X">>
    ELSE IF n >= 5 THEN <<"V">> \o ToRoman(n - 5)
    ELSE IF n = 4 THEN <<"I", "V">>
    ELSE IF n >= 1 THEN <<"I">> \o ToRoman(n - 1)
    ELSE <<>>

\* parseRomanNumeral(token): the value, or 0 when token is no numeral
ParseRomanNumeral(token) ==
    LET u == UpperText(token) IN
    IF token # <<>> /\ (\A i \in 1..Len(u) : RomanDigit(u[i]) > 0)
       /\ RomanValue(u) < 40 /\ ToRoman(RomanValue(u)) = u
    THEN RomanValue(u) ELSE 0

\* the value of a token of Arabic digits
RECURSIVE DigitsValue(_)
DigitsValue(t) ==
    IF t = <<>> THEN 0
    ELSE 10 * DigitsValue(SubSeq(t, 1, Len(t) - 1))
         + (CHOOSE d \in 0..9 : Digit[d + 1] = t[Len(t)])

IsMixedCase(token) ==
    /\ \E i \in 1..Len(token) : IsUpper(token[i])
    /\ \E i \in 1..Len(token) : IsLower(token[i])

(* 4.1 Line Classifier *)

\* the number of alphanumeric characters a text ends in
RECURSIVE TrailingAlnum(_)
TrailingAlnum(t) ==
    IF t # <<>> /\ IsAlnum(t[Len(t)])
    THEN 1 + TrailingAlnum(SubSeq(t, 1, Len(t) - 1)) ELSE 0

\* the trailing token of a line, after stripping trailing whitespace
TrailingToken(t) ==
    LET b == TrimRight(t) IN SubSeq(b, Len(b) - TrailingAlnum(b) + 1, Len(b))

\* "arabic", "roman" or "none": whether the line ends in a page number
PageKind(t) ==
    LET tok == TrailingToken(t) IN
    IF tok # <<>> /\ (\A i \in 1..Len(tok) : IsDigit(tok[i])) THEN "arabic"
    ELSE IF ParseRomanNumeral(tok) > 0 THEN "roman"
    ELSE "none"

RemoveArrows(t) == SelectSeq(t, LAMBDA ch : ch # ARROW)

\* the end of the run of dots and spaces that starts at the dot t[i]
RECURSIVE DotRunEnd(_, _, _)
DotRunEnd(t, i, lastDot) ==
    IF i > Len(t) THEN lastDot
    ELSE IF t[i] = DOT THEN DotRunEnd(t, i + 1, i)
    ELSE IF t[i] = SP THEN DotRunEnd(t, i + 1, lastDot)
    ELSE lastDot

DotCount(t, i, j) == Cardinality({k \in i..j : t[k] = DOT})

\* every run of two or more dots, with or without spaces between them,
\* is removed
RECURSIVE RemoveDotRunsFrom(_, _)
RemoveDotRunsFrom(t, i) ==
    IF i > Len(t) THEN <<>>
    ELSE IF t[i] = DOT /\ DotCount(t, i, DotRunEnd(t, i, i)) >= 2
    THEN RemoveDotRunsFrom(t, DotRunEnd(t, i, i) + 1)
    ELSE <<t[i]>> \o RemoveDotRunsFrom(t, i + 1)

RemoveDotRuns(t) == RemoveDotRunsFrom(t, 1)

\* the label of a TOC line: what precedes the page token, cleaned
TocLabel(t) ==
    LET b == TrimRight(t)
        before == SubSeq(b, 1, Len(b) - TrailingAlnum(b)) IN
    Trim(RemoveDotRuns(RemoveArrows(before)))

\* the abbreviation token may have at most this many characters
MaxAbbrevLen == 10

RECURSIVE LeadingLetters(_)
LeadingLetters(t) ==
    IF t # <<>> /\ IsLetter(Head(t)) THEN 1 + LeadingLetters(Tail(t)) ELSE 0

\* all-caps or title-case
IsAbbrevToken(tok) ==
    /\ Len(tok) >= 1
    /\ Len(tok) <= MaxAbbrevLen
    /\ IsUpper(tok[1])
    /\ \/ \A i \in 2..Len(tok) : IsUpper(tok[i])
       \/ \A i \in 2..Len(tok) : IsLower(tok[i])

\* the length of the separator rest begins with (0: none): a colon, a
\* dash, or a run of two or more spaces, with the spaces around it
SeparatorLen(rest) ==
    LET k == LeadingSpaces(rest)
        after == SubSeq(rest, k + 1, Len(rest)) IN
    IF after # <<>> /\ Head(after) \in {COLON, EMDASH}
    THEN k + 1 + LeadingSpaces(Tail(after))
    ELSE IF k >= 2 THEN k
    ELSE 0

\* [ok, token, expansion] of ABBREVIATION<separator>Expansion text
AbbrevParts(t) ==
    LET b == Trim(t)
        k == LeadingLetters(b)
        tok == SubSeq(b, 1, k)
        rest == SubSeq(b, k + 1, Len(b))
        n == SeparatorLen(rest)
        expansion == SubSeq(rest, n + 1, Len(rest)) IN
    [ok |-> /\ k >= 1
            /\ IsAbbrevToken(tok)
            /\ n >= 1
            /\ expansion # <<>>
            /\ PageKind(b) = "none",
     token |-> tok, expansion |-> expansion]

UNMATCHED == "UNMATCHED"
TOC_ENTRY == "TOC_ENTRY"
ABBREVIATION == "ABBREVIATION"

Entry(kind, label, pageNumber, indent) ==
    [kind |-> kind, label |-> label, pageNumber |-> pageNumber,
     rawIndentation |-> indent]

\* classify(paragraph): abbreviation first, then TOC entry, else unmatched
Classify(t) ==
    LET indent == LeadingSpaces(t)
        a == AbbrevParts(t)
        label == TocLabel(t) IN
    IF a.ok
    THEN Entry(ABBREVIATION, a.token \o <<SP, EMDASH, SP>> \o a.expansion,
               <<>>, indent)
    ELSE IF PageKind(t) # "none" /\ label # <<>>
            /\ ~(\A i \in 1..Len(label) : IsPunct(label[i]))
    THEN Entry(TOC_ENTRY, label, TrailingToken(t), indent)
    ELSE Entry(UNMATCHED, <<>>, <<>>, indent)

\* the value of a page number text
PageValue(token) ==
    IF token # <<>> /\ \A i \in 1..Len(token) : IsDigit(token[i])
    THEN DigitsValue(token) ELSE ParseRomanNumeral(token)

(* 4.2 Hierarchy Tracker *)

\* maxLevel
MaxLevel == 5

Min(a, b) == IF a < b THEN a ELSE b
Max(a, b) == IF a > b THEN a ELSE b

FreshTracker == [seen |-> FALSE, level |-> 0, indent |-> 0]

\* the number of periods between digits in the numbering the label
\* starts with: "1.1 x" has one
RECURSIVE NumberingDepth(_)
NumberingDepth(label) ==
    IF Len(label) >= 3 /\ IsDigit(label[1]) /\ label[2] = DOT /\ IsDigit(label[3])
    THEN 1 + NumberingDepth(SubSeq(label, 3, Len(label)))
    ELSE IF Len(label) >= 2 /\ IsDigit(label[1]) /\ IsDigit(label[2])
    THEN NumberingDepth(Tail(label))
    ELSE 0

\* inferLevel(entry, state): the level; config.indentPerLevel is the unit
InferLevel(entry, state, config) ==
    LET quantized == entry.rawIndentation \div config.indentPerLevel
        base == IF entry.rawIndentation = 0
                THEN NumberingDepth(entry.label) ELSE quantized
        deeper == IF state.seen /\ entry.rawIndentation > state.indent
                  THEN Max(base, state.level + 1) ELSE base IN
    Min(MaxLevel, deeper)

NextTracker(entry, level) ==
    [seen |-> TRUE, level |-> level, indent |-> entry.rawIndentation]

(* 4.3 Dot-Leader Renderer *)

\* Roman numerals are rendered verbatim unless their case is mixed
PageText(token) ==
    IF ParseRomanNumeral(token) > 0 /\ IsMixedCase(token) THEN UpperText(token)
    ELSE token

LeaderLength(config, indentWidth, labelWidth, pageWidth) ==
    Max(config.minLeaderLength,
        config.marginColumn - indentWidth - labelWidth - pageWidth)

\* render(entry, level, config)
Render(entry, level, config) ==
    LET indentWidth == config.indentPerLevel * level
        pageText == PageText(entry.pageNumber) IN
    IF entry.kind = ABBREVIATION
    THEN Spaces(indentWidth) \o entry.label
    ELSE Spaces(indentWidth) \o entry.label
         \o Fill(config.leaderChar,
                 LeaderLength(config, indentWidth, Len(entry.label), Len(pageText)))
         \o pageText

(* 4.4 Document Rewriter *)

\* minLeaderLength
MinLeaderLength == 3

\* the RenderConfig values of the model
Configs ==
    [indentPerLevel : {2}, marginColumn : {7, 12}, leaderChar : {DOT},
     minLeaderLength : {MinLeaderLength}]

\* the paragraphs documents are made of
Paragraphs ==
    { <<"A">>,
      <<"A", SP, "b">>,
      <<"A", COLON, SP, "b">>,
      <<SP, "A", SP, SP, "b">>,
      <<"A", SP, "5">>,
      <<"A", DOT, DOT, ARROW, "1", "2">>,
      <<"A", DOT, SP, "5">>,
      <<"A", SP, DOT, SP, "5">>,
      <<"A", SP, DOT, SP, DOT, SP, "5">>,
      <<"A", SP, "b", SP, "b", DOT, SP, "5">>,
      <<SP, "b", SP, "5">>,
      <<SP, SP, "b", ARROW, "5">>,
      <<SP, SP, SP, "b", SP, "5">>,
      <<"1", DOT, "1", SP, "b", DOT, DOT, SP, "5">>,
      <<"A", SP, "i", "v">>,
      <<"A", DOT, DOT, "I", "v">>,
      <<"A", SP, "I", "V">>,
      <<DOT, DOT, SP, "5">>,
      <<"5">> }

\* the documents of one to n paragraphs
RECURSIVE DocsUpTo(_)
DocsUpTo(n) ==
    IF n = 0 THEN {<<>>}
    ELSE LET shorter == DocsUpTo(n - 1) IN
         shorter \cup { Append(d, para) : d \in shorter, para \in Paragraphs }

Docs == DocsUpTo(MaxParas) \ {<<>>}

NoPass == [doc |-> <<>>, out |-> <<>>, kinds |-> <<>>, levels |-> <<>>,
           tracker |-> FreshTracker, config |-> CHOOSE c \in Configs : TRUE,
           round |-> 0, first |-> <<>>]

\* rewrite(document) starts: nothing is written, the tracker is fresh
StartPass(doc, config, round, first) ==
    [doc |-> doc, out |-> <<>>, kinds |-> <<>>, levels |-> <<>>,
     tracker |-> FreshTracker, config |-> config, round |-> round,
     first |-> first]

\* the paragraph the pass is at
Position == Len(rw.kinds) + 1

\* mutant of RewriteParagraph: only matched paragraphs are written
RewriteParagraphMatchedOnly(para, entry, level, config) ==
    IF entry.kind = UNMATCHED THEN <<>>
    ELSE <<Render(entry, level, config)>>

\* what the pass writes for one paragraph
RewriteParagraph(para, entry, level, config) ==
    IF entry.kind = UNMATCHED THEN <<para>>
    ELSE <<Render(entry, level, config)>>

\* one step of the forward pass: classify, infer the level, render
RewriteStep ==
    /\ rw.round >= 1
    /\ Position <= Len(rw.doc)
    /\ LET para == rw.doc[Position]
           entry == Classify(para)
           level == IF entry.kind = UNMATCHED THEN 0
                    ELSE InferLevel(entry, rw.tracker, rw.config) IN
       rw' = [rw EXCEPT
                !.out = @ \o RewriteParagraph(para, entry, level, rw.config),
                !.kinds = Append(@, entry.kind),
                !.levels = Append(@, level),
                !.tracker = IF entry.kind = UNMATCHED THEN @
                            ELSE NextTracker(entry, level)]
    /\ UNCHANGED webVars

\* the pass has written its document
PassDone == rw.round >= 1 /\ Len(rw.kinds) = Len(rw.doc)

\* the pass is run again, on its own output
RewriteAgain ==
    /\ rw.round = 1
    /\ PassDone
    /\ rw' = StartPass(rw.out, rw.config, 2, rw)
    /\ UNCHANGED webVars

(* ---------------------------- specification ---------------------------- *)

Init ==
    /\ now = 1
    /\ dirs = {}
    /\ fs = {}
    /\ ups = [c \in Clients |-> IdleUpload]
    /\ procs = [c \in Clients |-> IdleProcess]
    /\ dls = [c \in Clients |-> IdleDownload]
    /\ page = [file |-> Null, processing |-> FALSE, result |-> NoResp,
               error |-> Null, logs |-> <<>>, pc |-> "idle"]
    /\ rw = NoPass

Next ==
    \/ Tick
    \/ \E n \in OrigNames \cup {Null} : HandleFileChange(n)
    \/ \E parse \in {"ok", "error"} : HandleUpload(parse)
    \/ \E spawned \in BOOLEAN : UploadResponse(spawned)
    \/ ProcessResponse
    \/ HandleDownload
    \/ \E c \in ApiClients, n \in OrigNames : ApiUpload(c, "POST", n, "ok")
    \/ \E c \in ApiClients, parse \in {"nofile", "error"} : ApiUpload(c, "POST", Null, parse)
    \/ \E c \in ApiClients : ApiUpload(c, "GET", Null, "nofile")
    \/ \E c \in ApiClients, n \in ClientNames \cup {Null}, spawned \in BOOLEAN :
          ApiProcess(c, "POST", n, spawned)
    \/ \E c \in ApiClients, n \in ClientNames \cup {Null} :
          ApiProcess(c, "GET", n, TRUE)
    \/ \E c \in ApiClients, n \in ClientFiles \cup {Null} :
          ApiDownload(c, "GET", n)
    \/ \E c \in ApiClients : ApiDownload(c, "POST", Null)
    \/ \E c \in Clients : UploadResume(c)
    \/ \E c \in Clients : OnStdout(c)
    \/ \E c \in Clients : OnStderr(c)
    \/ \E c \in Clients : PyWrite(c)
    \/ \E c \in Clients : OnError(c)
    \/ \E c \in Clients, code \in {"0", "1", "null", "ENOENT"} : OnClose(c, code)
    \/ \E c \in Clients : DownloadTimer(c)

Spec == Init /\ [][Next]_vars

\* The event loop runs every callback that is due: the continuation of an
\* await whose promise has settled, the 'error' event of a failed spawn and
\* the 'close' event that follows it, and an expired timer.  Nothing makes
\* a running subprocess exit.
Fairness ==
    /\ \A c \in Clients : WF_vars(UploadResume(c))
    /\ \A c \in Clients : WF_vars(OnError(c))
    /\ \A c \in Clients : WF_vars(OnClose(c, "ENOENT"))
    /\ \A c \in Clients : WF_vars(DownloadTimer(c))
    /\ WF_vars(\E spawned \in BOOLEAN : UploadResponse(spawned))
    /\ WF_vars(ProcessResponse)

FairSpec == Init /\ [][Next]_vars /\ Fairness

\* the page alone with the requests it sends, "Format TOC" clicked any
\* number of times
PageNext ==
    \/ Tick
    \/ \E n \in PageNames \cup {Null} : HandleFileChange(n)
    \/ \E parse \in {"ok", "error"} : HandleUpload(parse)
    \/ \E parse \in {"ok", "error"} : HandleUploadAgain(parse)
    \/ \E spawned \in BOOLEAN : UploadResponse(spawned)
    \/ ProcessResponse
    \/ HandleDownload
    \/ UploadResume("page")
    \/ OnStdout("page")
    \/ PyWrite("page")
    \/ OnError("page")
    \/ \E code \in {"0", "1", "null", "ENOENT"} : OnClose("page", code)
    \/ DownloadTimer("page")

PageSpec == Init /\ [][PageNext]_vars

\* the rewrite pass alone, over every document and configuration
RewriteInit ==
    /\ now = 1
    /\ dirs = {}
    /\ fs = {}
    /\ ups = [c \in Clients |-> IdleUpload]
    /\ procs = [c \in Clients |-> IdleProcess]
    /\ dls = [c \in Clients |-> IdleDownload]
    /\ page = [file |-> Null, processing |-> FALSE, result |-> NoResp,
               error |-> Null, logs |-> <<>>, pc |-> "idle"]
    /\ \E doc \in Docs, config \in Configs : rw = StartPass(doc, config, 1, <<>>)

RewriteNext == RewriteStep \/ RewriteAgain

RewriteSpec == RewriteInit /\ [][RewriteNext]_vars

(* ------------------------------- claims -------------------------------- *)

\* the subprocess of request c was spawned
Spawned(c) == procs[c].st \in {"spawnfail", "running", "errored", "closed"}

\* C1: a process request whose input file exists is answered with 200,
\* success = true and outputFile = 'processed_' + filename exactly when
\* its subprocess closed with exit code 0; after any other exit code, a
\* signal or a failed spawn the answer is 500 with an error message and
\* no output file; there is no answer before 'close' or 'error'.
C1_ProcessOutcome ==
    \A c \in Clients :
        Spawned(c) =>
            LET q == procs[c]
                r == Sent(q) IN
            /\ (r # NoResp) <=> (q.st \in {"errored", "closed"})
            /\ r # NoResp =>
                  IF q.code = "0"
                  THEN /\ r.status = 200
                       /\ r.success
                       /\ r.outputFile = OutputFilename(q.filename)
                  ELSE /\ r.status = 500
                       /\ ~r.success
                       /\ r.error \notin {Null, <<>>}
                       /\ r.outputFile = Null

C1_Witness ==
    \E c \in Clients :
        /\ procs[c].st = "closed"
        /\ procs[c].code = "0"
        /\ Sent(procs[c]).status = 200

\* C2: when handleUpload ends with a failed process request, the page
\* holds the error message and the log the subprocess had printed on
\* stdout before it failed.
C2_FailureShowsLog ==
    [][(page.pc = "process" /\ page'.pc = "idle" /\ ~Ok(Sent(procs["page"])))
         => /\ page'.error = Sent(procs["page"]).error
            /\ page'.logs = procs["page"].output]_vars

\* C3: when the response of a request that spawned the subprocess is
\* sent, the input file is no longer in uploads.
C3_InputGoneAtResponse ==
    [][\A c \in Clients :
         (Spawned(c) /\ Sent(procs[c]) = NoResp /\ Sent(procs'[c]) # NoResp)
            => procs'[c].inputPath \notin fs']_vars

\* C4: a file that a download request has served is eventually deleted;
\* a download request is served only if its file exists at that moment
\* and gets 404 otherwise; a response, once sent, never changes, also
\* when the timer finds the file already gone.
C4_ServedThenDeleted ==
    /\ \A c \in Clients :
          (dls[c].timer = "pending") ~> (dls[c].timer = "fired" /\ dls[c].filePath \notin fs)
    /\ [][\A c \in Clients :
            /\ (dls[c].resp = NoResp /\ dls'[c].resp # NoResp
                   /\ dls'[c].resp.status \notin {400, 405, 500})
                => IF dls'[c].filePath \in fs
                   THEN dls'[c].resp.status = 200
                   ELSE dls'[c].resp.status = 404
            /\ dls[c].resp # NoResp => dls'[c].resp = dls[c].resp]_vars

\* two requests were served the same file and both timers have fired:
\* the second unlink found the file gone
C4_Witness ==
    /\ dls["page"].timer = "fired"
    /\ dls["api"].timer = "fired"
    /\ dls["page"].filePath = dls["api"].filePath
    /\ dls["page"].resp.status = 200
    /\ dls["api"].resp.status = 200

\* C5: two accepted uploads are stored under distinct names.
C5_DistinctStoredNames ==
    \A c1, c2 \in Clients :
        (c1 # c2 /\ ups[c1].resp.status = 200 /\ ups[c2].resp.status = 200)
            => ups[c1].resp.filename # ups[c2].resp.filename

\* C6: a non-null result on the page is the 200 response of the page's
\* process request, whose subprocess closed with exit code 0, and names
\* that request's output file; while the request runs or after it failed
\* the result is null.
C6_ResultOnlyAfterSuccess ==
    /\ page.result # NoResp =>
          /\ procs["page"].st = "closed"
          /\ procs["page"].code = "0"
          /\ page.result.status = 200
          /\ page.result.outputFile = OutputFilename(procs["page"].filename)
    /\ page.processing => page.result = NoResp

C6_Witness ==
    /\ page.result # NoResp
    /\ page.result.outputFile = OutputFilename(StoredName(1, <<"a", DOCX>>))

\* C7 as stated: every process request that spawned the subprocess is
\* eventually answered, and processing eventually returns to false.
C7_AlwaysAnswered ==
    /\ \A c \in Clients : Spawned(c) ~> (Sent(procs[c]) # NoResp)
    /\ page.processing ~> ~page.processing

\* C7 amended: a process request whose subprocess has closed or could
\* not be started is eventually answered, and once the page's request is
\* answered, processing eventually returns to false.
C7_AnsweredAfterClose ==
    /\ \A c \in Clients :
          (procs[c].st \in {"spawnfail", "errored", "closed"}) ~> (Sent(procs[c]) # NoResp)
    /\ (page.pc = "process" /\ procs["page"].st \in {"spawnfail", "errored", "closed"})
          ~> ~page.processing

C7_Witness ==
    /\ procs["page"].st = "closed"
    /\ procs["page"].code = "null"
    /\ ~page.processing
    /\ page.error = <<"Processing failed">>

\* a name of the form <digits>_<rest>
Timestamped(name) ==
    LET k == LeadingDigits(name) IN k >= 1 /\ Len(name) > k /\ name[k + 1] = "_"

\* C8: every file in uploads with a timestamped name ends in '.docx'; an
\* upload whose original name does not end in '.docx' is answered 400
\* and its temporary file is gone; the file selected on the page is null
\* or ends in '.docx'.
C8_OnlyDocx ==
    /\ \A path \in fs :
          (Inside(UPLOADS, path) /\ Timestamped(path[2])) => EndsWith(path[2], DOCX)
    /\ \A c \in Clients :
          (ups[c].st = "done" /\ ups[c].tmp # <<>> /\ ~EndsWith(ups[c].orig, DOCX))
             => ups[c].resp.status = 400 /\ ups[c].tmp \notin fs
    /\ page.file = Null \/ EndsWith(page.file, DOCX)

C8_Witness ==
    \E c \in Clients :
        /\ ups[c].st = "done"
        /\ ups[c].orig = <<"a", TXT>>
        /\ ups[c].resp.status = 400
        /\ page.file = <<"a", DOCX>>

\* C9: the pass writes one paragraph for each paragraph it has read, in
\* order: the i-th output is the i-th input itself when that is
\* UNMATCHED, and its rendering otherwise; at the end the output is as
\* long as the input.
C9_TotalOrderPreserving ==
    rw.round >= 1 =>
        /\ Len(rw.out) = Len(rw.kinds)
        /\ Len(rw.out) <= Len(rw.doc)
        /\ PassDone => Len(rw.out) = Len(rw.doc)
        /\ \A i \in 1..Len(rw.out) :
              LET entry == Classify(rw.doc[i]) IN
              IF entry.kind = UNMATCHED
              THEN rw.out[i] = rw.doc[i]
              ELSE /\ rw.kinds[i] = entry.kind
                   /\ rw.out[i] = Render(entry, rw.levels[i], rw.config)

C9_Witness ==
    /\ PassDone
    /\ Len(rw.doc) = MaxParas
    /\ rw.kinds[1] = UNMATCHED
    /\ rw.kinds[2] = TOC_ENTRY
    /\ rw.out[2] # rw.doc[2]

\* C10: the pass run on its own output writes that output again.
C10_Idempotent ==
    (rw.round = 2 /\ PassDone) => rw.out = rw.doc

\* the Roman page tokens of value 4, in lower, upper and mixed case
RomanFourTokens == { <<"i", "v">>, <<"I", "V">>, <<"I", "v">> }

\* C11: a TOC line whose trailing page token is "iv", "IV" or "Iv" is
\* classified with page number value 4, and the page number text of its
\* rendering is "IV".
C11_RomanRoundTrip ==
    rw.round >= 1 =>
        \A i \in 1..Len(rw.out) :
            LET entry == Classify(rw.doc[i])
                line == rw.out[i] IN
            (entry.kind = TOC_ENTRY /\ TrailingToken(rw.doc[i]) \in RomanFourTokens)
                => /\ PageValue(entry.pageNumber) = 4
                   /\ SubSeq(line, Len(line) - 1, Len(line)) = <<"I", "V">>

\* C12: a request is spawned only when it is a POST with a filename whose
\* file exists in uploads at that moment; any other request is rejected,
\* with 405 for another method, 400 for a missing filename and 404 for a
\* missing file, and its rejection creates and deletes nothing.
C12_SpawnOnlyValid ==
    [][\A c \in Clients :
         (procs[c].st = "idle" /\ procs'[c].st # "idle") =>
            LET q == procs'[c]
                valid == /\ q.method = "POST"
                         /\ q.filename # Null
                         /\ q.inputPath \in fs IN
            /\ q.st \in {"running", "spawnfail"} <=> valid
            /\ q.st = "rejected" <=> ~valid
            /\ q.st = "rejected" =>
                  /\ Len(q.calls) = 1
                  /\ Sent(q).status = IF q.method # "POST" THEN 405
                                      ELSE IF q.filename = Null THEN 400
                                      ELSE 404
                  /\ fs' = fs
                  /\ dirs' = dirs]_vars

\* a GET request that names an uploaded file was answered 405, and the
\* outputs directory does not exist
C12_Witness ==
    \E c \in Clients :
        /\ procs[c].st = "rejected"
        /\ procs[c].method = "GET"
        /\ procs[c].inputPath \in fs
        /\ Sent(procs[c]).status = 405
        /\ OUTPUTS \notin dirs

\* C13: the input path of a spawned request lies inside uploads and its
\* output path inside outputs, 'close' deletes only files inside uploads,
\* and a download serves, and its timer deletes, only files inside outputs.
C13_FilesStayInside ==
    /\ [](\A c \in Clients :
            /\ Spawned(c) => /\ Inside(UPLOADS, procs[c].inputPath)
                             /\ Inside(OUTPUTS, procs[c].outputPath)
            /\ dls[c].resp.status = 200 => Inside(OUTPUTS, dls[c].filePath))
    /\ [][\A c \in Clients :
            /\ (procs[c].st # "closed" /\ procs'[c].st = "closed")
                  => \A path \in fs \ fs' : Inside(UPLOADS, path)
            /\ (dls[c].timer = "pending" /\ dls'[c].timer = "fired")
                  => \A path \in fs \ fs' : Inside(OUTPUTS, path)]_vars

\* C14: res.status(...).json(...) is called at most once per process
\* request, whatever 'error' and 'close' events its subprocess emits.
C14_AtMostOneResponse ==
    \A c \in Clients : Len(procs[c].calls) <= 1

\* C15: the page's download of the reported outputFile, when the file is
\* still there, is answered with a Content-Disposition filename equal to
\* the original name of the file the page uploaded.
C15_DownloadNameRoundTrip ==
    (dls["page"].resp # NoResp /\ dls["page"].resp.status # 404) =>
        /\ dls["page"].file = OutputFilename(ups["page"].resp.filename)
        /\ dls["page"].resp.status = 200
        /\ dls["page"].resp.filename = ups["page"].orig

\* a pipeline of the page is in flight: handleUpload has started and has
\* not reached the end of its finally block
InFlight == page.pc # "idle"

\* C16: a pipeline starts only when none is in flight, with a file
\* selected and processing false; processing is true for as long as the
\* pipeline is in flight; the button is disabled whenever no file is
\* selected or processing is true.
C16_OnePipeline ==
    /\ [](InFlight => page.processing)
    /\ []((page.file = Null \/ page.processing) => ButtonDisabled)
    /\ [][(ups["page"].st # "parsing" /\ ups'["page"].st = "parsing")
            => /\ ~InFlight
               /\ page.file # Null
               /\ ~page.processing]_vars

\* a second pipeline is in flight, after the first one has ended
C16_Witness ==
    /\ InFlight
    /\ page.processing
    /\ page.file # Null
    /\ procs["page"].st = "running"
    /\ \E path \in fs : Inside(OUTPUTS, path)

\* C17: error and result are never both non-null on the page.
C17_ErrorOrResult ==
    ~(page.error # Null /\ page.result # NoResp)

\* C18: a result shown while a file is selected is the result of
\* processing that file: its outputFile is the processed, stored name of
\* the selected file.
C18_ResultOfSelectedFile ==
    (page.result # NoResp /\ page.file # Null) =>
        /\ page.result = Sent(procs["page"])
        /\ \E t \in Clock :
              page.result.outputFile = OutputFilename(StoredName(t, page.file))

====
